---- MODULE Spec2Model ----
(***************************************************************************)
(* Model of the account controller of CineConnect                          *)
(* (server/controllers/userController.js): registration, login, deferred   *)
(* profile changes confirmed by an emailed token, resend of the            *)
(* verification email, and password reset.                                 *)
(*                                                                         *)
(* Time is counted in hours.  null / undefined / "" are modelled by the    *)
(* falsy values NoValue (strings), NoPassword (passwords and hashes),      *)
(* NoToken (tokens) and NoTime (dates).                                    *)
(***************************************************************************)
EXTENDS Integers, Sequences, FiniteSets, TLC

\* ---- bounds of the model ----
MaxUsers == 2
MaxTokens == 3
MaxTicks == 1

\* ---- program constants ----
VerifyTTL == 24
ResetTTL == 1

NoValue == ""
NoPassword == << >>
NoToken == 0
NoTime == -1

UserIds == 1..MaxUsers
Tokens == 1..MaxTokens
Reqs == {1, 2}

Usernames == {"alice", "bob"}
Emails == {"a@x.com", "new@x.com"}
Secret == <<"s", "e", "c", "r", "e", "t">>
Hunter2 == <<"h", "u", "n", "t", "e", "r", "2">>
Passwords == {Secret, Hunter2}
\* a password of five characters
Short == <<"h", "u", "n", "t", "2">>
\* every account is created with the same password
RegisterPasswords == {Secret}

\* ---- response messages ----
MsgEmailRegistered == "Email is already registered"
MsgUsernameTaken == "Username is already taken"
MsgRegistered == "Registration successful! Please check your email to verify your account."
MsgRegisteredNoMail == "Registration successful, but we could not send a verification email. Please try requesting a new verification email from your profile page."
MsgBadLogin == "Invalid email or password"
MsgUserNotFound == "User not found"
MsgPendingExists == "You have pending changes that require verification. Please check your email or request a new verification link."
MsgEmailInUse == "Email is already in use"
MsgCurrentRequired == "Current password is required"
MsgCurrentIncorrect == "Current password is incorrect"
MsgNoChanges == "No changes were requested"
MsgVerificationSent == "A verification email has been sent"
MsgCouldNotSend == "Could not send verification email. Please try again later."
MsgInvalidToken == "Invalid or expired verification token"
MsgVerified == "Email verified successfully"
MsgChangesApplied == "Profile changes applied successfully"
MsgVerifyError == "Server error during verification"
MsgAlreadyVerified == "Your email is already verified"
MsgResent == "Verification email has been sent"
MsgEmailRequired == "Email is required"
MsgResetGeneric == "If an account with that email exists, a password reset link has been sent."
MsgResetSendError == "Error sending password reset email. Please try again later."
MsgPasswordRequired == "New password is required"
MsgPasswordShort == "Password must be at least 6 characters"
MsgInvalidReset == "Invalid or expired password reset token"
MsgResetDone == "Password has been reset successfully. You can now log in with your new password."
MsgLoggedIn == "logged in"
MsgInvalidLink == "Invalid verification link"
MsgVerifyFailed == "Failed to verify profile changes. The link may be invalid or expired."
MsgAppliedLogin == "Profile changes successfully applied! Please log in with your updated credentials."

VARIABLES
  users,      \* the users collection: id -> document
  now,        \* Date.now(), in hours
  nextToken,  \* the next value generateRandomToken() returns
  req,        \* the requests being served: where each handler stands, and its response
  used,       \* tokens that verifyEmail has accepted so far
  issuedBy,   \* for each token generated so far, the handler that generated it
  page        \* the VerifyProfileChanges page in the browser: its state and localStorage

vars == <<users, now, nextToken, req, used, issuedBy, page>>

\* ---- documents ----
EmptyPending == [username |-> NoValue, email |-> NoValue,
                 password |-> NoPassword, changeType |-> NoValue]

NoUser == [exists |-> FALSE, username |-> NoValue, email |-> NoValue,
           password |-> NoPassword, isEmailVerified |-> FALSE,
           pendingChanges |-> EmptyPending,
           emailVerificationToken |-> NoToken, emailVerificationExpires |-> NoTime,
           passwordResetToken |-> NoToken, passwordResetExpires |-> NoTime,
           lastLogin |-> NoTime]

\* a request slot no handler runs in
Idle == [pc |-> "idle", op |-> NoValue, uid |-> 0, doc |-> NoUser,
         pendingChanges |-> EmptyPending, token |-> NoToken,
         status |-> 0, message |-> NoValue,
         changeType |-> NoValue, emailTarget |-> NoValue,
         username |-> NoValue, email |-> NoValue, password |-> NoPassword]

\* the answer, kept with the fields of the request body it answers
For(resp, username, email, password) ==
  [resp EXCEPT !.username = username, !.email = email, !.password = password]

\* res.status(status).json({ message }): the handler has answered
Resp(op, uid, token, status, message) ==
  [Idle EXCEPT !.pc = "done", !.op = op, !.uid = uid, !.token = token,
               !.status = status, !.message = message]

\* the page before the browser has opened it
Closed == [pc |-> "closed", token |-> NoToken, loading |-> FALSE, success |-> FALSE,
           error |-> NoValue, user |-> FALSE, stored |-> FALSE,
           authSuccess |-> NoValue, calls |-> 0]

\* ---- helpers ----
\* bcrypt.hash(plain, salt)
Hash(plain) == <<"$2b$">> \o plain

\* user.matchPassword(candidate): bcrypt.compare(candidate, this.password)
MatchPassword(user, candidate) == user.password = Hash(candidate)

\* the password the User model persists for a plaintext assigned to it
HashOnSave(plain) == Hash(plain)

\* new Date(Date.now() + 24 * 60 * 60 * 1000)
VerifyExpiry(t) == t + VerifyTTL

\* new Date(Date.now() + 60 * 60 * 1000)
ResetExpiry(t) == t + ResetTTL

\* a save that hashes the staged hash once more
HashOnSaveStagedAgain(hash) == Hash(hash)

\* the password the User model persists for a staged hash assigned to it:
\* the hash as it was staged
HashOnSaveStaged(hash) == hash

\* generateRandomToken(): a value no earlier call returned
GenerateRandomToken(n) == n

CanIssue == nextToken <= MaxTokens

\* a check for a pending batch that never finds one
HasPendingChangesNever(user) == FALSE

\* user.pendingChanges.changeType is truthy
HasPendingChanges(user) == user.pendingChanges.changeType # NoValue

\* User.findOne({ email })
FindByEmail(email) == {v \in UserIds : users[v].exists /\ users[v].email = email}

\* User.findOne({ username })
FindByUsername(username) == {v \in UserIds : users[v].exists /\ users[v].username = username}

\* a lookup for the registration that forgets the email
FindByUsernameOnly(email, username) == FindByUsername(username)

\* User.findOne({ $or: [{ email }, { username }] })
FindByEmailOrUsername(email, username) == FindByEmail(email) \cup FindByUsername(username)

\* a token lookup that leaves the expiry out of the query
VerificationTokenMatchesNoExpiry(user, token, t) ==
  user.emailVerificationToken = token

\* { emailVerificationToken: token, emailVerificationExpires: { $gt: Date.now() } }
VerificationTokenMatches(user, token, t) ==
  /\ user.emailVerificationToken = token
  /\ user.emailVerificationExpires # NoTime
  /\ user.emailVerificationExpires > t

\* a reset-token lookup that leaves the expiry out of the query
ResetTokenMatchesNoExpiry(user, token, t) ==
  user.passwordResetToken = token

\* { passwordResetToken: token, passwordResetExpires: { $gt: Date.now() } }
ResetTokenMatches(user, token, t) ==
  /\ user.passwordResetToken = token
  /\ user.passwordResetExpires # NoTime
  /\ user.passwordResetExpires > t

\* a store without unique indexes
DuplicateKeyNever(u, doc) == FALSE

\* the unique indexes on username and email reject a write of doc as user u
DuplicateKey(u, doc) ==
  \E v \in UserIds \ {u} :
    /\ users[v].exists
    /\ (users[v].email = doc.email \/ users[v].username = doc.username)

Quiet == \A r \in Reqs : req[r].pc = "idle"

\* the request slot a new request occupies
FreeSlot == CHOOSE r \in Reqs : req[r].pc = "idle" /\ \A q \in Reqs : q < r => req[q].pc # "idle"

\* the id User.create gives the next document
NewId == CHOOSE u \in UserIds : ~users[u].exists /\ \A v \in UserIds : v < u => users[v].exists

ClockSteps(t) == (t \div VerifyTTL) + (t % VerifyTTL)

Init ==
  /\ users = [u \in UserIds |-> NoUser]
  /\ now = 0
  /\ nextToken = 1
  /\ req = [r \in Reqs |-> Idle]
  /\ used = {}
  /\ issuedBy = [t \in Tokens |-> NoValue]
  /\ page = Closed

\* a registration that trusts the email at once
NewUserVerified(username, email, password, token, t) ==
  [NoUser EXCEPT !.exists = TRUE, !.username = username, !.email = email,
                 !.password = HashOnSave(password), !.isEmailVerified = TRUE,
                 !.emailVerificationToken = token,
                 !.emailVerificationExpires = VerifyExpiry(t)]

\* ---- registerUser ----
NewUser(username, email, password, token, t) ==
  [NoUser EXCEPT !.exists = TRUE, !.username = username, !.email = email,
                 !.password = HashOnSave(password), !.isEmailVerified = FALSE,
                 !.emailVerificationToken = token,
                 !.emailVerificationExpires = VerifyExpiry(t)]

RegisterConflictMessage(userExists, email) ==
  IF userExists.email = email THEN MsgEmailRegistered ELSE MsgUsernameTaken

RegisterUser(r, username, email, password, sendOk) ==
  /\ req[r].pc = "idle"
  /\ LET found == FindByEmailOrUsername(email, username) IN
     IF found # {}
     THEN /\ \E v \in found :
               req' = [req EXCEPT ![r] = For(Resp("registerUser", 0, NoToken, 400,
                                                  RegisterConflictMessage(users[v], email)),
                                             username, email, password)]
          /\ UNCHANGED <<users, nextToken, issuedBy>>
     ELSE /\ CanIssue
          /\ \E u \in UserIds : ~users[u].exists
          /\ users' = [users EXCEPT ![NewId] =
                         NewUser(username, email, password, GenerateRandomToken(nextToken), now)]
          /\ nextToken' = nextToken + 1
          /\ issuedBy' = [issuedBy EXCEPT ![nextToken] = "registerUser"]
          /\ req' = [req EXCEPT ![r] = For(Resp("registerUser", NewId, GenerateRandomToken(nextToken), 201,
                                                IF sendOk THEN MsgRegistered ELSE MsgRegisteredNoMail),
                                           username, email, password)]
  /\ UNCHANGED <<now, used, page>>

\* a login that tells an unknown email from a wrong password
LoginUserTellsUnknownEmail(r, email, password) ==
  /\ req[r].pc = "idle"
  /\ LET found == FindByEmail(email) IN
     IF found = {}
     THEN /\ req' = [req EXCEPT ![r] = For(Resp("loginUser", 0, NoToken, 404, MsgUserNotFound),
                                           NoValue, email, password)]
          /\ UNCHANGED users
     ELSE \E u \in found :
            IF MatchPassword(users[u], password)
            THEN /\ users' = [users EXCEPT ![u].lastLogin = now]
                 /\ req' = [req EXCEPT ![r] = For(Resp("loginUser", u, NoToken, 200, MsgLoggedIn),
                                                  NoValue, email, password)]
            ELSE /\ req' = [req EXCEPT ![r] = For(Resp("loginUser", 0, NoToken, 401, MsgBadLogin),
                                                  NoValue, email, password)]
                 /\ UNCHANGED users
  /\ UNCHANGED <<now, nextToken, issuedBy, used, page>>

\* ---- loginUser ----
LoginUser(r, email, password) ==
  /\ req[r].pc = "idle"
  /\ LET found == FindByEmail(email) IN
     IF found = {}
     THEN /\ req' = [req EXCEPT ![r] = For(Resp("loginUser", 0, NoToken, 401, MsgBadLogin),
                                           NoValue, email, password)]
          /\ UNCHANGED users
     ELSE \E u \in found :
            IF MatchPassword(users[u], password)
            THEN /\ users' = [users EXCEPT ![u].lastLogin = now]
                 /\ req' = [req EXCEPT ![r] = For(Resp("loginUser", u, NoToken, 200, MsgLoggedIn),
                                                  NoValue, email, password)]
            ELSE /\ req' = [req EXCEPT ![r] = For(Resp("loginUser", 0, NoToken, 401, MsgBadLogin),
                                                  NoValue, email, password)]
                 /\ UNCHANGED users
  /\ UNCHANGED <<now, nextToken, issuedBy, used, page>>

\* ---- updateUserProfile ----
\* pendingChanges.email after the email block
StagedEmail(doc, body) ==
  IF body.email # NoValue /\ body.email # doc.email THEN body.email ELSE NoValue

\* pendingChanges.username after the username block
StagedUsername(doc, body) ==
  IF body.username # NoValue /\ body.username # doc.username THEN body.username ELSE NoValue

\* pendingChanges.password after the password block
StagedPassword(body) ==
  IF body.newPassword # NoPassword THEN Hash(body.newPassword) ELSE NoPassword

\* a classification in which the username block overwrites the type
ChangeTypeOfLastWins(email, username, password) ==
  IF password # NoPassword THEN "password"
  ELSE IF username # NoValue THEN "username"
  ELSE IF email # NoValue THEN "email"
  ELSE NoValue

\* changeType after the three blocks, each block run in the order of the code
ChangeTypeOf(email, username, password) ==
  LET afterEmail == IF email # NoValue THEN "email" ELSE NoValue
      afterUsername == IF username # NoValue
                       THEN (IF afterEmail # NoValue THEN "multiple" ELSE "username")
                       ELSE afterEmail
  IN IF password # NoPassword
     THEN (IF afterUsername # NoValue THEN "multiple" ELSE "password")
     ELSE afterUsername

\* user.pendingChanges = { ...pendingChanges, changeType }
StagePending(doc, body) ==
  LET email == StagedEmail(doc, body)
      username == StagedUsername(doc, body)
      password == StagedPassword(body)
  IN [username |-> username, email |-> email, password |-> password,
      changeType |-> ChangeTypeOf(email, username, password)]

\* the first early return the validation of the request runs into, or status 0
ValidateRequest(doc, body) ==
  IF StagedEmail(doc, body) # NoValue /\ FindByEmail(body.email) # {}
    THEN [status |-> 400, message |-> MsgEmailInUse]
  ELSE IF StagedUsername(doc, body) # NoValue /\ FindByUsername(body.username) # {}
    THEN [status |-> 400, message |-> MsgUsernameTaken]
  ELSE IF body.newPassword # NoPassword /\ body.currentPassword = NoPassword
    THEN [status |-> 400, message |-> MsgCurrentRequired]
  ELSE IF body.newPassword # NoPassword /\ ~MatchPassword(doc, body.currentPassword)
    THEN [status |-> 401, message |-> MsgCurrentIncorrect]
  ELSE IF StagePending(doc, body).changeType = NoValue
    THEN [status |-> 400, message |-> MsgNoChanges]
  ELSE [status |-> 0, message |-> NoValue]

\* a save that writes the requested email on the live record at once
StagedUserAppliesEmail(user, pendingChanges, token, t) ==
  [user EXCEPT !.pendingChanges = pendingChanges,
               !.email = IF pendingChanges.email # NoValue THEN pendingChanges.email ELSE @,
               !.emailVerificationToken = token,
               !.emailVerificationExpires = VerifyExpiry(t)]

\* a save that also resets the verified flag
StagedUserUnverifies(user, pendingChanges, token, t) ==
  [user EXCEPT !.pendingChanges = pendingChanges,
               !.isEmailVerified = FALSE,
               !.emailVerificationToken = token,
               !.emailVerificationExpires = VerifyExpiry(t)]

\* a save that keeps the fields of the stored batch the new batch leaves empty
StagedUserMerges(user, pendingChanges, token, t) ==
  [user EXCEPT !.pendingChanges =
                 [pendingChanges EXCEPT
                    !.username = IF @ = NoValue THEN user.pendingChanges.username ELSE @,
                    !.email = IF @ = NoValue THEN user.pendingChanges.email ELSE @,
                    !.password = IF @ = NoPassword THEN user.pendingChanges.password ELSE @],
               !.emailVerificationToken = token,
               !.emailVerificationExpires = VerifyExpiry(t)]

\* a save that leaves a token the user already holds in place
StagedUserKeepsOldToken(user, pendingChanges, token, t) ==
  [user EXCEPT !.pendingChanges = pendingChanges,
               !.emailVerificationToken = IF @ # NoToken THEN @ ELSE token,
               !.emailVerificationExpires = IF @ # NoTime THEN @ ELSE VerifyExpiry(t)]

\* the document written by the save that stages the batch; save() writes
\* the paths the handler assigned and leaves the others as stored
StagedUser(user, pendingChanges, token, t) ==
  [user EXCEPT !.pendingChanges = pendingChanges,
               !.emailVerificationToken = token,
               !.emailVerificationExpires = VerifyExpiry(t)]

\* a rollback that clears the token and leaves the batch
RolledBackUserKeepsBatch(user) ==
  [user EXCEPT !.emailVerificationToken = NoToken,
               !.emailVerificationExpires = NoTime]

\* a rollback that clears the batch and leaves the token
RolledBackUserKeepsToken(user) ==
  [user EXCEPT !.pendingChanges = EmptyPending]

\* the document written by the save of the catch block
RolledBackUser(user) ==
  [user EXCEPT !.pendingChanges = EmptyPending,
               !.emailVerificationToken = NoToken,
               !.emailVerificationExpires = NoTime]

\* a target that is always the current email
EmailTargetCurrent(pendingChanges, doc) == doc.email

\* pendingChanges.email || user.email
EmailTarget(pendingChanges, doc) ==
  IF pendingChanges.email # NoValue THEN pendingChanges.email ELSE doc.email

\* a handler that stores the batch before it validates the request
UpdLoadStagesFirst(r, u, body) ==
  /\ req[r].pc = "idle"
  /\ IF ~users[u].exists
     THEN /\ req' = [req EXCEPT ![r] = Resp("updateUserProfile", u, NoToken, 404, MsgUserNotFound)]
          /\ UNCHANGED users
     ELSE IF HasPendingChanges(users[u])
     THEN /\ req' = [req EXCEPT ![r] = Resp("updateUserProfile", u, NoToken, 400, MsgPendingExists)]
          /\ UNCHANGED users
     ELSE LET result == ValidateRequest(users[u], body) IN
          IF result.status # 0
          THEN /\ req' = [req EXCEPT ![r] = Resp("updateUserProfile", u, NoToken,
                                                 result.status, result.message)]
               /\ users' = [users EXCEPT ![u].pendingChanges = StagePending(users[u], body)]
          ELSE /\ req' = [req EXCEPT ![r] = [Idle EXCEPT !.pc = "save", !.op = "updateUserProfile",
                                                        !.uid = u, !.doc = users[u],
                                                        !.pendingChanges = StagePending(users[u], body)]]
               /\ UNCHANGED users
  /\ UNCHANGED <<now, nextToken, issuedBy, used, page>>

\* findById, the check for a batch that is already pending, the uniqueness
\* lookups, the current-password check and the no-op check
UpdLoad(r, u, body) ==
  /\ req[r].pc = "idle"
  /\ IF ~users[u].exists
     THEN req' = [req EXCEPT ![r] = Resp("updateUserProfile", u, NoToken, 404, MsgUserNotFound)]
     ELSE IF HasPendingChanges(users[u])
     THEN req' = [req EXCEPT ![r] = Resp("updateUserProfile", u, NoToken, 400, MsgPendingExists)]
     ELSE LET result == ValidateRequest(users[u], body) IN
          IF result.status # 0
          THEN req' = [req EXCEPT ![r] = Resp("updateUserProfile", u, NoToken,
                                              result.status, result.message)]
          ELSE req' = [req EXCEPT ![r] = [Idle EXCEPT !.pc = "save", !.op = "updateUserProfile",
                                                     !.uid = u, !.doc = users[u],
                                                     !.pendingChanges = StagePending(users[u], body)]]
  /\ UNCHANGED <<users, now, nextToken, issuedBy, used, page>>

\* the token is generated and the batch is saved with it
UpdSave(r) ==
  /\ req[r].pc = "save"
  /\ CanIssue
  /\ LET u == req[r].uid
         token == GenerateRandomToken(nextToken)
     IN /\ users' = [users EXCEPT ![u] = StagedUser(users[u], req[r].pendingChanges, token, now)]
        /\ req' = [req EXCEPT ![r].pc = "send", ![r].token = token]
  /\ nextToken' = nextToken + 1
  /\ issuedBy' = [issuedBy EXCEPT ![nextToken] = "updateUserProfile"]
  /\ UNCHANGED <<now, used, page>>

\* sendProfileVerificationEmail resolves
UpdSendOk(r) ==
  /\ req[r].pc = "send"
  /\ req' = [req EXCEPT ![r] =
               For([Resp("updateUserProfile", req[r].uid, req[r].token, 200, MsgVerificationSent)
                      EXCEPT !.changeType = req[r].pendingChanges.changeType,
                             !.emailTarget = EmailTarget(req[r].pendingChanges, req[r].doc)],
                   req[r].doc.username, req[r].doc.email, NoPassword)]
  /\ UNCHANGED <<users, now, nextToken, issuedBy, used, page>>

\* sendProfileVerificationEmail throws: the catch block rolls the batch back
UpdSendFail(r) ==
  /\ req[r].pc = "send"
  /\ users' = [users EXCEPT ![req[r].uid] = RolledBackUser(users[req[r].uid])]
  /\ req' = [req EXCEPT ![r] =
               Resp("updateUserProfile", req[r].uid, req[r].token, 500, MsgCouldNotSend)]
  /\ UNCHANGED <<now, nextToken, issuedBy, used, page>>

\* a confirmation that copies the staged username and password but not the email
VerifiedUserSkipsEmail(user) ==
  LET pendingChanges == user.pendingChanges IN
  IF user.pendingChanges.changeType # NoValue
  THEN [user EXCEPT
          !.username = IF pendingChanges.username # NoValue
                       THEN pendingChanges.username ELSE @,
          !.password = IF pendingChanges.password # NoPassword
                       THEN pendingChanges.password ELSE @,
          !.pendingChanges = EmptyPending,
          !.isEmailVerified = TRUE,
          !.emailVerificationToken = NoToken,
          !.emailVerificationExpires = NoTime]
  ELSE [user EXCEPT !.isEmailVerified = TRUE,
                    !.emailVerificationToken = NoToken,
                    !.emailVerificationExpires = NoTime]

\* a confirmation that leaves the token on the record
VerifiedUserKeepsToken(user) ==
  LET pendingChanges == user.pendingChanges IN
  IF user.pendingChanges.changeType # NoValue
  THEN [user EXCEPT
          !.username = IF pendingChanges.username # NoValue
                       THEN pendingChanges.username ELSE @,
          !.email = IF pendingChanges.email # NoValue
                    THEN pendingChanges.email ELSE @,
          !.password = IF pendingChanges.password # NoPassword
                       THEN pendingChanges.password ELSE @,
          !.pendingChanges = EmptyPending,
          !.isEmailVerified = TRUE]
  ELSE [user EXCEPT !.isEmailVerified = TRUE]

\* a confirmation after which a changed email has to be verified again
VerifiedUserUnverifiesNewEmail(user) ==
  LET pendingChanges == user.pendingChanges IN
  IF user.pendingChanges.changeType # NoValue
  THEN [user EXCEPT
          !.username = IF pendingChanges.username # NoValue
                       THEN pendingChanges.username ELSE @,
          !.email = IF pendingChanges.email # NoValue
                    THEN pendingChanges.email ELSE @,
          !.password = IF pendingChanges.password # NoPassword
                       THEN pendingChanges.password ELSE @,
          !.pendingChanges = EmptyPending,
          !.isEmailVerified = (pendingChanges.email = NoValue),
          !.emailVerificationToken = NoToken,
          !.emailVerificationExpires = NoTime]
  ELSE [user EXCEPT !.isEmailVerified = TRUE,
                    !.emailVerificationToken = NoToken,
                    !.emailVerificationExpires = NoTime]

\* ---- verifyEmail ----
\* the document as verifyEmail leaves it in memory before it is saved
VerifiedUser(user) ==
  LET initial == IF ~user.isEmailVerified /\ ~HasPendingChanges(user)
                 THEN [user EXCEPT !.isEmailVerified = TRUE]
                 ELSE user
      pendingChanges == initial.pendingChanges
      applied == IF HasPendingChanges(initial)
                 THEN [initial EXCEPT
                         !.username = IF pendingChanges.username # NoValue
                                      THEN pendingChanges.username ELSE @,
                         !.email = IF pendingChanges.email # NoValue
                                   THEN pendingChanges.email ELSE @,
                         !.password = IF pendingChanges.password # NoPassword
                                      THEN HashOnSaveStaged(pendingChanges.password) ELSE @,
                         !.pendingChanges = EmptyPending,
                         !.isEmailVerified = TRUE]
                 ELSE initial
  IN [applied EXCEPT !.emailVerificationToken = NoToken,
                     !.emailVerificationExpires = NoTime]

\* the success message, computed from the document after it was saved
VerifyMessage(user) ==
  IF HasPendingChanges(user) THEN MsgChangesApplied ELSE MsgVerified

\* User.findOne({ emailVerificationToken: token, emailVerificationExpires: { $gt: Date.now() } })
FindByVerificationToken(token) ==
  {u \in UserIds : users[u].exists /\ VerificationTokenMatches(users[u], token, now)}

VerifyEmail(r, token) ==
  /\ req[r].pc = "idle"
  /\ LET found == FindByVerificationToken(token) IN
     IF found = {}
     THEN /\ req' = [req EXCEPT ![r] = Resp("verifyEmail", 0, token, 400, MsgInvalidToken)]
          /\ UNCHANGED <<users, used>>
     ELSE \E u \in found :
            LET doc == VerifiedUser(users[u]) IN
            IF DuplicateKey(u, doc)
            THEN /\ req' = [req EXCEPT ![r] = Resp("verifyEmail", u, token, 500, MsgVerifyError)]
                 /\ UNCHANGED <<users, used>>
            ELSE /\ users' = [users EXCEPT ![u] = doc]
                 /\ used' = used \cup {token}
                 /\ req' = [req EXCEPT ![r] = Resp("verifyEmail", u, token, 200, VerifyMessage(doc))]
  /\ UNCHANGED <<now, nextToken, issuedBy, page>>

\* a resend that extends the expiry of the token already stored
ResentUserSameToken(user, token, t) ==
  [user EXCEPT !.emailVerificationExpires = VerifyExpiry(t)]

\* ---- resendVerificationEmail ----
ResentUser(user, token, t) ==
  [user EXCEPT !.emailVerificationToken = token,
               !.emailVerificationExpires = VerifyExpiry(t)]

ResendVerificationEmail(r, u, sendOk) ==
  /\ req[r].pc = "idle"
  /\ IF ~users[u].exists
     THEN /\ req' = [req EXCEPT ![r] = Resp("resendVerificationEmail", u, NoToken, 404, MsgUserNotFound)]
          /\ UNCHANGED <<users, nextToken, issuedBy>>
     ELSE IF users[u].isEmailVerified
     THEN /\ req' = [req EXCEPT ![r] = Resp("resendVerificationEmail", u, NoToken, 400, MsgAlreadyVerified)]
          /\ UNCHANGED <<users, nextToken, issuedBy>>
     ELSE /\ CanIssue
          /\ users' = [users EXCEPT ![u] = ResentUser(users[u], GenerateRandomToken(nextToken), now)]
          /\ nextToken' = nextToken + 1
          /\ issuedBy' = [issuedBy EXCEPT ![nextToken] = "resendVerificationEmail"]
          /\ req' = [req EXCEPT ![r] =
                       IF sendOk
                       THEN Resp("resendVerificationEmail", u, GenerateRandomToken(nextToken), 200, MsgResent)
                       ELSE Resp("resendVerificationEmail", u, GenerateRandomToken(nextToken), 500, MsgCouldNotSend)]
  /\ UNCHANGED <<now, used, page>>

\* a reset request that stores its token in the verification field as well
ResetRequestedUserBothFields(user, token, t) ==
  [user EXCEPT !.passwordResetToken = token,
               !.passwordResetExpires = ResetExpiry(t),
               !.emailVerificationToken = token]

\* ---- forgotPassword ----
ResetRequestedUser(user, token, t) ==
  [user EXCEPT !.passwordResetToken = token,
               !.passwordResetExpires = ResetExpiry(t)]

\* a catch block that leaves the reset token on the record
ResetClearedUserKeepsToken(user) == user

ResetClearedUser(user) ==
  [user EXCEPT !.passwordResetToken = NoToken,
               !.passwordResetExpires = NoTime]

\* up to the save of the reset token
ForgotPassword(r, email) ==
  /\ req[r].pc = "idle"
  /\ IF email = NoValue
     THEN /\ req' = [req EXCEPT ![r] = Resp("forgotPassword", 0, NoToken, 400, MsgEmailRequired)]
          /\ UNCHANGED <<users, nextToken, issuedBy>>
     ELSE IF FindByEmail(email) = {}
     THEN /\ req' = [req EXCEPT ![r] = For(Resp("forgotPassword", 0, NoToken, 200, MsgResetGeneric),
                                           NoValue, email, NoPassword)]
          /\ UNCHANGED <<users, nextToken, issuedBy>>
     ELSE /\ CanIssue
          /\ \E u \in FindByEmail(email) :
               /\ users' = [users EXCEPT ![u] =
                              ResetRequestedUser(users[u], GenerateRandomToken(nextToken), now)]
               /\ req' = [req EXCEPT ![r] = [Idle EXCEPT !.pc = "forgotSend", !.op = "forgotPassword",
                                                        !.uid = u, !.doc = users[u], !.email = email,
                                                        !.token = GenerateRandomToken(nextToken)]]
          /\ nextToken' = nextToken + 1
          /\ issuedBy' = [issuedBy EXCEPT ![nextToken] = "forgotPassword"]
  /\ UNCHANGED <<now, used, page>>

\* the reset email is sent
ForgotSendOk(r) ==
  /\ req[r].pc = "forgotSend"
  /\ req' = [req EXCEPT ![r] = For(Resp("forgotPassword", req[r].uid, req[r].token, 200, MsgResetGeneric),
                                   NoValue, req[r].email, NoPassword)]
  /\ UNCHANGED <<users, now, nextToken, issuedBy, used, page>>

\* the reset email fails: the catch block removes the token
ForgotSendFail(r) ==
  /\ req[r].pc = "forgotSend"
  /\ users' = [users EXCEPT ![req[r].uid] = ResetClearedUser(users[req[r].uid])]
  /\ req' = [req EXCEPT ![r] = For(Resp("forgotPassword", req[r].uid, req[r].token, 500, MsgResetSendError),
                                   NoValue, req[r].email, NoPassword)]
  /\ UNCHANGED <<now, nextToken, issuedBy, used, page>>

\* a reset that leaves the reset token in place
PasswordResetUserKeepsToken(user, password) ==
  [user EXCEPT !.password = HashOnSave(password)]

\* a reset that also drops the pending batch and its token
PasswordResetUserDropsBatch(user, password) ==
  [user EXCEPT !.password = HashOnSave(password),
               !.passwordResetToken = NoToken,
               !.passwordResetExpires = NoTime,
               !.pendingChanges = NoUser.pendingChanges,
               !.emailVerificationToken = NoToken,
               !.emailVerificationExpires = NoTime]

\* ---- resetPassword ----
PasswordResetUser(user, password) ==
  [user EXCEPT !.password = HashOnSave(password),
               !.passwordResetToken = NoToken,
               !.passwordResetExpires = NoTime]

\* a lookup that takes a token stored in either token field
FindByEitherToken(token) ==
  {u \in UserIds : /\ users[u].exists
                   /\ \/ ResetTokenMatches(users[u], token, now)
                      \/ VerificationTokenMatches(users[u], token, now)}

\* User.findOne({ passwordResetToken: token, passwordResetExpires: { $gt: Date.now() } })
FindByResetToken(token) ==
  {u \in UserIds : users[u].exists /\ ResetTokenMatches(users[u], token, now)}

ResetPassword(r, token, password) ==
  /\ req[r].pc = "idle"
  /\ IF password = NoPassword
     THEN /\ req' = [req EXCEPT ![r] = For(Resp("resetPassword", 0, token, 400, MsgPasswordRequired),
                                           NoValue, NoValue, password)]
          /\ UNCHANGED users
     ELSE IF Len(password) < 6
     THEN /\ req' = [req EXCEPT ![r] = For(Resp("resetPassword", 0, token, 400, MsgPasswordShort),
                                           NoValue, NoValue, password)]
          /\ UNCHANGED users
     ELSE IF FindByResetToken(token) = {}
     THEN /\ req' = [req EXCEPT ![r] = For(Resp("resetPassword", 0, token, 400, MsgInvalidReset),
                                           NoValue, NoValue, password)]
          /\ UNCHANGED users
     ELSE \E u \in FindByResetToken(token) :
            /\ users' = [users EXCEPT ![u] = PasswordResetUser(users[u], password)]
            /\ req' = [req EXCEPT ![r] = For(Resp("resetPassword", u, token, 200, MsgResetDone),
                                             NoValue, NoValue, password)]
  /\ UNCHANGED <<now, nextToken, issuedBy, used, page>>

\* ---- the end of a request ----
\* the handler returns after it has answered
Finish(r) ==
  /\ req[r].pc = "done"
  /\ req' = [req EXCEPT ![r] = Idle]
  /\ UNCHANGED <<users, now, nextToken, issuedBy, used, page>>

\* ---- the clock ----
Tick(d) ==
  /\ ClockSteps(now) < MaxTicks
  /\ now' = now + d
  /\ UNCHANGED <<users, nextToken, issuedBy, req, used, page>>

\* ---- requests served one at a time ----
\* the request bodies; currentPassword is read only when newPassword is given
Bodies == {body \in [username : Usernames \cup {NoValue}, email : Emails \cup {NoValue},
                     newPassword : Passwords \cup {NoPassword},
                     currentPassword : Passwords \cup {NoPassword}] :
             body.newPassword = NoPassword => body.currentPassword = NoPassword}

Next ==
  \/ Quiet /\ \E username \in Usernames, email \in Emails, password \in RegisterPasswords, sendOk \in BOOLEAN :
                RegisterUser(FreeSlot, username, email, password, sendOk)
  \/ Quiet /\ \E u \in UserIds, body \in Bodies : UpdLoad(FreeSlot, u, body)
  \/ \E r \in Reqs : UpdSave(r)
  \/ \E r \in Reqs : UpdSendOk(r)
  \/ \E r \in Reqs : UpdSendFail(r)
  \/ Quiet /\ \E token \in Tokens : VerifyEmail(FreeSlot, token)
  \/ Quiet /\ \E u \in UserIds, sendOk \in BOOLEAN : ResendVerificationEmail(FreeSlot, u, sendOk)
  \/ Quiet /\ \E email \in Emails \cup {NoValue} : ForgotPassword(FreeSlot, email)
  \/ \E r \in Reqs : ForgotSendOk(r)
  \/ \E r \in Reqs : ForgotSendFail(r)
  \/ Quiet /\ \E token \in Tokens, password \in Passwords \cup {NoPassword} :
                ResetPassword(FreeSlot, token, password)
  \/ \E r \in Reqs : Finish(r)
  \/ Quiet /\ \E d \in {ResetTTL, VerifyTTL} : Tick(d)

Spec == Init /\ [][Next]_vars

\* ---- one account, with logins ----
\* as Next, with loginUser, and with every registration asking for the same
\* username and email, so that a single account exists
NextLogin ==
  \/ Quiet /\ \E password \in RegisterPasswords, sendOk \in BOOLEAN :
                RegisterUser(FreeSlot, "alice", "a@x.com", password, sendOk)
  \/ Quiet /\ \E email \in Emails, password \in Passwords : LoginUser(FreeSlot, email, password)
  \/ Quiet /\ \E u \in UserIds, body \in Bodies : UpdLoad(FreeSlot, u, body)
  \/ \E r \in Reqs : UpdSave(r)
  \/ \E r \in Reqs : UpdSendOk(r)
  \/ \E r \in Reqs : UpdSendFail(r)
  \/ Quiet /\ \E token \in Tokens : VerifyEmail(FreeSlot, token)
  \/ Quiet /\ \E u \in UserIds, sendOk \in BOOLEAN : ResendVerificationEmail(FreeSlot, u, sendOk)
  \/ Quiet /\ \E email \in Emails \cup {NoValue} : ForgotPassword(FreeSlot, email)
  \/ \E r \in Reqs : ForgotSendOk(r)
  \/ \E r \in Reqs : ForgotSendFail(r)
  \/ Quiet /\ \E token \in Tokens, password \in Passwords \cup {NoPassword, Short} :
                ResetPassword(FreeSlot, token, password)
  \/ \E r \in Reqs : Finish(r)
  \/ Quiet /\ \E d \in {ResetTTL, VerifyTTL} : Tick(d)

SpecLogin == Init /\ [][NextLogin]_vars

\* ---- one account, requests served concurrently ----
HasFreeSlot == \E r \in Reqs : req[r].pc = "idle"

\* the requests that race ask for a username, an email or both
RaceBodies == {body \in Bodies : body.newPassword = NoPassword}

\* a request starts while another is between two of its awaits
NextRace ==
  \/ HasFreeSlot /\ \E sendOk \in BOOLEAN :
                      RegisterUser(FreeSlot, "alice", "a@x.com", Secret, sendOk)
  \/ HasFreeSlot /\ \E u \in UserIds, body \in RaceBodies : UpdLoad(FreeSlot, u, body)
  \/ \E r \in Reqs : UpdSave(r)
  \/ \E r \in Reqs : UpdSendOk(r)
  \/ \E r \in Reqs : UpdSendFail(r)
  \/ HasFreeSlot /\ \E token \in Tokens : VerifyEmail(FreeSlot, token)
  \/ \E r \in Reqs : Finish(r)

SpecRace == Init /\ [][NextRace]_vars

\* ---- the VerifyProfileChanges page ----
\* the browser opens /verify-profile-changes/:token; stored tells whether
\* localStorage holds a 'user' session; the component renders with
\* loading = true, success = false, error = null
PageOpen(token, stored) ==
  /\ page.pc = "closed"
  /\ page' = [Closed EXCEPT !.pc = "mounted", !.token = token, !.loading = TRUE,
                            !.user = stored, !.stored = stored]
  /\ UNCHANGED <<users, now, nextToken, req, used, issuedBy>>

\* the effect runs: with a token it starts the call, without one it shows
\* the error
PageEffect ==
  /\ page.pc = "mounted"
  /\ page' = IF page.token # NoToken
             THEN [page EXCEPT !.pc = "calling", !.loading = TRUE, !.calls = @ + 1]
             ELSE [page EXCEPT !.pc = "shown", !.error = MsgInvalidLink, !.loading = FALSE]
  /\ UNCHANGED <<users, now, nextToken, req, used, issuedBy>>

\* the request of the page is in a slot of the server
PageRequestServed == \E r \in Reqs : req[r].op = "verifyEmail"

\* the server handles the request of the page
PageServe ==
  /\ page.pc = "calling"
  /\ ~PageRequestServed
  /\ \E r \in Reqs : req[r].pc = "idle"
  /\ VerifyEmail(FreeSlot, page.token)

\* a continuation that removes the stored session whatever the answer
PageResolveAlwaysLogsOut ==
  /\ page.pc = "calling"
  /\ \E r \in Reqs :
       /\ req[r].pc = "done" /\ req[r].op = "verifyEmail"
       /\ page' = IF req[r].status = 200
                  THEN [page EXCEPT !.pc = "shown", !.success = TRUE, !.error = NoValue,
                                    !.user = FALSE,
                                    !.authSuccess = IF req[r].message # NoValue
                                                    THEN req[r].message ELSE MsgAppliedLogin,
                                    !.loading = FALSE]
                  ELSE [page EXCEPT !.pc = "shown", !.success = FALSE,
                                    !.user = FALSE,
                                    !.error = IF req[r].message # NoValue
                                              THEN req[r].message ELSE MsgVerifyFailed,
                                    !.loading = FALSE]
  /\ UNCHANGED <<users, now, nextToken, req, used, issuedBy>>

\* the promise settles with the answer of the server: the rest of the try
\* block on a 2xx answer, the catch block otherwise, then the finally block
PageResolve ==
  /\ page.pc = "calling"
  /\ \E r \in Reqs :
       /\ req[r].pc = "done" /\ req[r].op = "verifyEmail"
       /\ page' = IF req[r].status = 200
                  THEN [page EXCEPT !.pc = "shown", !.success = TRUE, !.error = NoValue,
                                    !.user = FALSE,
                                    !.authSuccess = IF req[r].message # NoValue
                                                    THEN req[r].message ELSE MsgAppliedLogin,
                                    !.loading = FALSE]
                  ELSE [page EXCEPT !.pc = "shown", !.success = FALSE,
                                    !.error = IF req[r].message # NoValue
                                              THEN req[r].message ELSE MsgVerifyFailed,
                                    !.loading = FALSE]
  /\ UNCHANGED <<users, now, nextToken, req, used, issuedBy>>

\* the promise rejects without an answer (no err.response): the catch block
\* with its own message, then the finally block
PageCallFails ==
  /\ page.pc = "calling"
  /\ page' = [page EXCEPT !.pc = "shown", !.success = FALSE, !.error = MsgVerifyFailed,
                          !.loading = FALSE]
  /\ UNCHANGED <<users, now, nextToken, req, used, issuedBy>>

\* one account and the page; the answer to the page stays in its slot until
\* the page has taken it
NextPage ==
  \/ Quiet /\ \E sendOk \in BOOLEAN : RegisterUser(FreeSlot, "alice", "a@x.com", Secret, sendOk)
  \/ Quiet /\ \E u \in UserIds, body \in RaceBodies : UpdLoad(FreeSlot, u, body)
  \/ \E r \in Reqs : UpdSave(r)
  \/ \E r \in Reqs : UpdSendOk(r)
  \/ \E r \in Reqs : UpdSendFail(r)
  \/ \E r \in Reqs : (page.pc = "calling" => req[r].op # "verifyEmail") /\ Finish(r)
  \/ Quiet /\ \E d \in {ResetTTL, VerifyTTL} : Tick(d)
  \/ \E token \in Tokens \cup {NoToken}, stored \in BOOLEAN : PageOpen(token, stored)
  \/ PageEffect
  \/ PageServe
  \/ PageResolve
  \/ PageCallFails

\* the effect runs after the first render, the server answers a request it
\* has received, and a settled promise runs its continuation
SpecPage ==
  /\ Init
  /\ [][NextPage]_vars
  /\ WF_vars(PageEffect)
  /\ WF_vars(PageServe)
  /\ WF_vars(PageResolve)

TypeOK ==
  /\ now \in Nat
  /\ nextToken \in 1..(MaxTokens + 1)
  /\ used \subseteq Tokens

\* ---- the steps the properties speak about ----
\* handler op answers in this step, in slot r
Answers(r, op) == req[r].pc # "done" /\ req'[r].pc = "done" /\ req'[r].op = op

\* a request of handler op starts in this step, in slot r
Starts(r, op) == req[r].pc = "idle" /\ req'[r].pc # "idle" /\ req'[r].op = op

Pending(user) == user.pendingChanges.changeType # NoValue

LiveUnchanged(old, new) ==
  /\ new.username = old.username
  /\ new.email = old.email
  /\ new.password = old.password

\* C1: updateUserProfile on a user that has a pending batch is answered with
\* the 'pending changes' error and changes no user record; a pending batch is
\* never replaced by another batch, it can only be cleared.
C1_PendingBlocksStaging ==
  [][/\ \A r \in Reqs, u \in UserIds :
          (Starts(r, "updateUserProfile") /\ req'[r].uid = u
             /\ users[u].exists /\ Pending(users[u]))
          => /\ req'[r].pc = "done"
             /\ req'[r].status = 400
             /\ req'[r].message = MsgPendingExists
             /\ users' = users
     /\ \A u \in UserIds :
          (Pending(users[u]) /\ users'[u].pendingChanges # users[u].pendingChanges)
          => users'[u].pendingChanges = EmptyPending]_vars

C1_Witness ==
  \E r \in Reqs :
    /\ req[r].pc = "done" /\ req[r].op = "updateUserProfile"
    /\ req[r].message = MsgPendingExists
    /\ Pending(users[req[r].uid])

\* C2: a verifyEmail that finds a user with a pending batch either saves
\* once, with every staged field copied onto the live record, no other
\* live field changed, the batch and the token cleared together and no
\* other user touched, or (the write rejected) answers 500 and changes nothing.
C2_ConfirmAppliesBatchAtomically ==
  [][\A r \in Reqs, u \in UserIds :
       (Answers(r, "verifyEmail") /\ req'[r].uid = u /\ Pending(users[u]))
       => LET old == users[u]
              new == users'[u]
              staged == users[u].pendingChanges
          IN \/ /\ req'[r].status = 200
                /\ new.username = (IF staged.username # NoValue THEN staged.username ELSE old.username)
                /\ new.email = (IF staged.email # NoValue THEN staged.email ELSE old.email)
                /\ new.password = (IF staged.password # NoPassword THEN staged.password ELSE old.password)
                /\ new.pendingChanges = EmptyPending
                /\ new.emailVerificationToken = NoToken
                /\ new.emailVerificationExpires = NoTime
                /\ new.isEmailVerified
                /\ new.passwordResetToken = old.passwordResetToken
                /\ new.passwordResetExpires = old.passwordResetExpires
                /\ new.lastLogin = old.lastLogin
                /\ \A v \in UserIds \ {u} : users'[v] = users[v]
             \/ /\ req'[r].status = 500
                /\ users' = users]_vars

C2_Witness ==
  \E r \in Reqs :
    /\ req[r].pc = "done" /\ req[r].op = "verifyEmail" /\ req[r].status = 200
    /\ users[req[r].uid].email = "new@x.com"
    /\ users[req[r].uid].username = "bob"
    /\ users[req[r].uid].password = Hash(Hunter2)
    /\ ~Pending(users[req[r].uid])
    /\ req[r].token = 2

\* C3: a token that verifyEmail has accepted is never accepted again: a
\* later verifyEmail with it answers 'invalid or expired' and changes
\* nothing; and a verifyEmail that confirms a staged email leaves the user
\* with that email and without a batch.
C3_TokensAreSingleUse ==
  [][\A r \in Reqs :
       /\ (Answers(r, "verifyEmail") /\ req'[r].token \in used)
          => /\ req'[r].status = 400
             /\ req'[r].message = MsgInvalidToken
             /\ users' = users
       /\ \A u \in UserIds :
            (Answers(r, "verifyEmail") /\ req'[r].status = 200 /\ req'[r].uid = u
               /\ users[u].pendingChanges.email # NoValue)
            => /\ users'[u].email = users[u].pendingChanges.email
               /\ users'[u].pendingChanges = EmptyPending
               /\ req'[r].token \in used']_vars

C3_Witness ==
  \E r \in Reqs, u \in UserIds :
    /\ req[r].pc = "done" /\ req[r].op = "verifyEmail" /\ req[r].status = 400
    /\ req[r].token \in used
    /\ users[u].email = "new@x.com" /\ users[u].isEmailVerified
    /\ ~Pending(users[u])

\* C4: a verifyEmail whose token is stored by no user, or is stored with an
\* expiry that is not later than the current time, changes no user record
\* and gets the same 400 'invalid or expired' answer in both cases.
C4_BadTokenChangesNothing ==
  [][\A r \in Reqs :
       (/\ Answers(r, "verifyEmail")
        /\ \A u \in UserIds :
             \/ ~users[u].exists
             \/ users[u].emailVerificationToken # req'[r].token
             \/ users[u].emailVerificationExpires <= now)
       => /\ users' = users
          /\ req'[r].status = 400
          /\ req'[r].message = MsgInvalidToken]_vars

\* the token presented is stored on a record, and has expired
C4_Witness ==
  \E r \in Reqs, u \in UserIds :
    /\ req[r].pc = "done" /\ req[r].op = "verifyEmail" /\ req[r].status = 400
    /\ users[u].exists
    /\ users[u].emailVerificationToken = req[r].token
    /\ users[u].emailVerificationExpires <= now
    /\ Pending(users[u])

\* C5: when the verification email of updateUserProfile cannot be sent, the
\* 500 answer comes with the batch and the token cleared and with the live
\* username, email and password as the request found them; and a request on
\* a user without a batch is never answered 'pending changes exist'.
C5_SendFailureRollsBack ==
  [][\A r \in Reqs :
       /\ (req[r].pc = "send" /\ req'[r].pc = "done" /\ req'[r].status # 200)
          => LET u == req[r].uid IN
             /\ req'[r].status = 500
             /\ req'[r].message = MsgCouldNotSend
             /\ LiveUnchanged(req[r].doc, users'[u])
             /\ users'[u].pendingChanges = EmptyPending
             /\ users'[u].emailVerificationToken = NoToken
             /\ users'[u].emailVerificationExpires = NoTime
       /\ \A u \in UserIds :
            (Starts(r, "updateUserProfile") /\ req'[r].uid = u /\ ~Pending(users[u]))
            => req'[r].message # MsgPendingExists]_vars

C5_Witness ==
  \E r \in Reqs :
    /\ req[r].pc = "done" /\ req[r].op = "updateUserProfile"
    /\ req[r].status = 500 /\ req[r].message = MsgCouldNotSend
    /\ ~Pending(users[req[r].uid])

\* C6: no step of updateUserProfile changes the live username, email or
\* password of any user; the live username and email of a user change only
\* when verifyEmail succeeds for that user, and then to the staged values;
\* the live password changes only when verifyEmail or resetPassword
\* succeeds for that user.
C6_SensitiveChangesAreDeferred ==
  [][\A u \in UserIds :
       users[u].exists =>
         /\ (\E r \in Reqs : req[r].op = "updateUserProfile" \/ req'[r].op = "updateUserProfile")
            => LiveUnchanged(users[u], users'[u])
         /\ users'[u].username # users[u].username
            => /\ \E r \in Reqs : Answers(r, "verifyEmail") /\ req'[r].status = 200 /\ req'[r].uid = u
               /\ users'[u].username = users[u].pendingChanges.username
         /\ users'[u].email # users[u].email
            => /\ \E r \in Reqs : Answers(r, "verifyEmail") /\ req'[r].status = 200 /\ req'[r].uid = u
               /\ users'[u].email = users[u].pendingChanges.email
         /\ users'[u].password # users[u].password
            => \E r \in Reqs :
                 /\ Answers(r, "verifyEmail") \/ Answers(r, "resetPassword")
                 /\ req'[r].status = 200 /\ req'[r].uid = u]_vars

\* the request was accepted and the live email is still the old one
C6_Witness ==
  \E r \in Reqs :
    /\ req[r].pc = "done" /\ req[r].op = "updateUserProfile" /\ req[r].status = 200
    /\ users[req[r].uid].pendingChanges.email = "new@x.com"
    /\ users[req[r].uid].email = "a@x.com"

\* C7: the changeType of every stored batch is 'multiple' exactly when two
\* or more of the staged username, email and password are set, names the
\* staged field when exactly one is set, and is empty exactly when none is.
C7_ChangeTypeMatchesStagedFields ==
  \A u \in UserIds :
    LET p == users[u].pendingChanges
        n == (IF p.username # NoValue THEN 1 ELSE 0)
             + (IF p.email # NoValue THEN 1 ELSE 0)
             + (IF p.password # NoPassword THEN 1 ELSE 0)
    IN /\ (p.changeType = "multiple") <=> (n >= 2)
       /\ (p.changeType = NoValue) <=> (n = 0)
       /\ (n = 1 /\ p.username # NoValue) => p.changeType = "username"
       /\ (n = 1 /\ p.email # NoValue) => p.changeType = "email"
       /\ (n = 1 /\ p.password # NoPassword) => p.changeType = "password"
       /\ p.changeType \in {NoValue, "username", "email", "password", "multiple"}

C7_Witness ==
  \E u \in UserIds :
    /\ users[u].pendingChanges.changeType = "multiple"
    /\ users[u].pendingChanges.username # NoValue
    /\ users[u].pendingChanges.password # NoPassword
    /\ users[u].pendingChanges.email = NoValue

\* C8 as stated: no user is ever unverified while holding a pending batch
\* (a profile update by an unverified user is rejected).
C8_NoUnverifiedUserHoldsBatch ==
  \A u \in UserIds :
    (users[u].exists /\ Pending(users[u])) => users[u].isEmailVerified

\* C8 as amended: the save that stages a batch is reached only for a user
\* without a batch, whether or not that user is verified, and it leaves
\* isEmailVerified and the live fields as they are.
C8_StagingIgnoresVerifiedFlag ==
  [][\A r \in Reqs :
       (req[r].pc = "save" /\ req'[r].pc = "send")
       => LET u == req[r].uid IN
          /\ ~Pending(users[u])
          /\ Pending(users'[u])
          /\ users'[u].pendingChanges = req[r].pendingChanges
          /\ users'[u].isEmailVerified = users[u].isEmailVerified
          /\ LiveUnchanged(users[u], users'[u])]_vars

\* an unverified user whose profile update was accepted
C8_Witness ==
  \E r \in Reqs :
    /\ req[r].pc = "done" /\ req[r].op = "updateUserProfile" /\ req[r].status = 200
    /\ ~users[req[r].uid].isEmailVerified
    /\ Pending(users[req[r].uid])

\* C9 as stated: a user never has an unexpired email-verification token and
\* an unexpired password-reset token at the same time.
C9_OneActiveTokenAcrossPurposes ==
  \A u \in UserIds :
    ~ /\ users[u].exists
      /\ users[u].emailVerificationToken # NoToken
      /\ users[u].emailVerificationExpires > now
      /\ users[u].passwordResetToken # NoToken
      /\ users[u].passwordResetExpires > now

\* C9 as amended: a token that is replaced on a record is stored on no
\* record afterwards, for the verification token and for the reset token
\* each; a step that changes one of the two leaves the other, with its
\* expiry, as it was.
C9_OneTokenPerKind ==
  [][\A u \in UserIds :
       /\ \A t \in Tokens :
            /\ (users[u].emailVerificationToken = t /\ users'[u].emailVerificationToken # t)
               => \A v \in UserIds : users'[v].emailVerificationToken # t
            /\ (users[u].passwordResetToken = t /\ users'[u].passwordResetToken # t)
               => \A v \in UserIds : users'[v].passwordResetToken # t
       /\ users'[u].emailVerificationToken # users[u].emailVerificationToken
          => /\ users'[u].passwordResetToken = users[u].passwordResetToken
             /\ users'[u].passwordResetExpires = users[u].passwordResetExpires
       /\ users'[u].passwordResetToken # users[u].passwordResetToken
          => /\ users'[u].emailVerificationToken = users[u].emailVerificationToken
             /\ users'[u].emailVerificationExpires = users[u].emailVerificationExpires]_vars

\* forgotPassword was answered for a user whose verification token is still valid
C9_Witness ==
  \E r \in Reqs :
    /\ req[r].pc = "done" /\ req[r].op = "forgotPassword" /\ req[r].status = 200
    /\ req[r].uid \in UserIds
    /\ users[req[r].uid].passwordResetToken = req[r].token
    /\ users[req[r].uid].passwordResetExpires > now
    /\ users[req[r].uid].emailVerificationToken # NoToken
    /\ users[req[r].uid].emailVerificationExpires > now

\* C10: resendVerificationEmail for a verified user answers 400 and changes
\* no record; for an unverified user it stores a token never issued before,
\* expiring 24 hours later, changes nothing else, and the token it replaces
\* is stored on no record afterwards.
C10_ResendReplacesToken ==
  [][\A r \in Reqs, u \in UserIds :
       (Answers(r, "resendVerificationEmail") /\ req'[r].uid = u /\ users[u].exists)
       => IF users[u].isEmailVerified
          THEN /\ req'[r].status = 400
               /\ req'[r].message = MsgAlreadyVerified
               /\ users' = users
          ELSE /\ req'[r].token \in Tokens \ used
               /\ \A v \in UserIds : users[v].emailVerificationToken # req'[r].token
               /\ \A v \in UserIds : users[v].passwordResetToken # req'[r].token
               /\ users' = [users EXCEPT ![u].emailVerificationToken = req'[r].token,
                                         ![u].emailVerificationExpires = now + 24]
               /\ users[u].emailVerificationToken # NoToken
                  => \A v \in UserIds :
                       users'[v].emailVerificationToken # users[u].emailVerificationToken]_vars

\* the token of the registration has been replaced
C10_Witness ==
  \E r \in Reqs :
    /\ req[r].pc = "done" /\ req[r].op = "resendVerificationEmail" /\ req[r].status = 200
    /\ users[req[r].uid].emailVerificationToken = req[r].token
    /\ req[r].token > 1
    /\ users[req[r].uid].emailVerificationExpires = now + 24

\* C11: a verifyEmail that succeeds with a token generated by
\* resendVerificationEmail only sets isEmailVerified and clears the token,
\* and a verifyEmail that commits a pending batch was given a token
\* generated by updateUserProfile.
C11_ResendTokenNeverCommitsBatch ==
  [][\A r \in Reqs, u \in UserIds :
       (Answers(r, "verifyEmail") /\ req'[r].status = 200 /\ req'[r].uid = u)
       => /\ issuedBy[req'[r].token] = "resendVerificationEmail"
             => users' = [users EXCEPT ![u].isEmailVerified = TRUE,
                                       ![u].emailVerificationToken = NoToken,
                                       ![u].emailVerificationExpires = NoTime]
          /\ Pending(users[u]) => issuedBy[req'[r].token] = "updateUserProfile"]_vars

\* C12: every answer of forgotPassword to a request with a non-empty email
\* is the 200 answer with the generic message, whether or not an account
\* with that email exists.
C12_ForgotPasswordAnswersAlike ==
  \A r \in Reqs :
    (req[r].pc = "done" /\ req[r].op = "forgotPassword" /\ req[r].email # NoValue)
    => /\ req[r].status = 200
       /\ req[r].message = MsgResetGeneric

\* C13: loginUser answers an unknown email and a known email with a wrong
\* password with the same 401 'Invalid email or password' and changes no
\* record; a login with the right password sets lastLogin of that user to
\* the current time and changes nothing else; no other step changes lastLogin.
C13_LoginFailsUniformly ==
  [][/\ \A r \in Reqs :
          Answers(r, "loginUser")
          => LET email == req'[r].email
                 password == req'[r].password
                 matching == {u \in UserIds : /\ users[u].exists
                                               /\ users[u].email = email
                                               /\ users[u].password = Hash(password)}
             IN IF matching = {}
                THEN /\ req'[r].status = 401
                     /\ req'[r].message = MsgBadLogin
                     /\ req'[r].uid = 0
                     /\ users' = users
                ELSE /\ req'[r].status = 200
                     /\ req'[r].uid \in matching
                     /\ users' = [users EXCEPT ![req'[r].uid].lastLogin = now]
     /\ \A u \in UserIds :
          (users[u].exists /\ users'[u].lastLogin # users[u].lastLogin)
          => \E r \in Reqs : Answers(r, "loginUser") /\ req'[r].status = 200 /\ req'[r].uid = u]_vars

\* a known email with a wrong password, after a login that succeeded
C13_Witness ==
  \E r \in Reqs, u \in UserIds :
    /\ req[r].pc = "done" /\ req[r].op = "loginUser" /\ req[r].status = 401
    /\ users[u].exists /\ users[u].email = req[r].email
    /\ users[u].password # Hash(req[r].password)
    /\ users[u].lastLogin # NoTime

\* C14: a registerUser whose email or username is held by an existing user
\* is answered 400 with one of the two conflict messages and changes no
\* user record, so no user is created and at most one user holds the email.
C14_RegisterConflictCreatesNothing ==
  [][\A r \in Reqs :
       (/\ Answers(r, "registerUser")
        /\ \E v \in UserIds : /\ users[v].exists
                              /\ \/ users[v].email = req'[r].email
                                 \/ users[v].username = req'[r].username)
       => /\ req'[r].status = 400
          /\ req'[r].message \in {MsgEmailRegistered, MsgUsernameTaken}
          /\ users' = users
          /\ Cardinality({v \in UserIds : /\ users'[v].exists
                                          /\ users'[v].email = req'[r].email}) <= 1]_vars

\* the email is registered already, the username is free
C14_Witness ==
  \E r \in Reqs :
    /\ req[r].pc = "done" /\ req[r].op = "registerUser" /\ req[r].status = 400
    /\ Cardinality({v \in UserIds : users[v].exists /\ users[v].email = req[r].email}) = 1
    /\ \A v \in UserIds : users[v].exists => users[v].username # req[r].username

\* C15: a registerUser whose email is held by an existing user is answered
\* 'Email is already registered', also when its username is held too, by
\* the same or by another user.
C15_EmailConflictReportedFirst ==
  [][\A r \in Reqs :
       (/\ Answers(r, "registerUser")
        /\ \E v \in UserIds : users[v].exists /\ users[v].email = req'[r].email)
       => req'[r].message = MsgEmailRegistered]_vars

\* C16: a registerUser answered 201 has created a user with the requested
\* username and email, not verified, without a pending batch, holding the
\* token of the answer with an expiry 24 hours ahead, and has changed no
\* other user; the answer says either that a verification email was sent or,
\* when sending failed, that verification must be requested later.
C16_RegisterCreatesUnverifiedUser ==
  [][\A r \in Reqs :
       (Answers(r, "registerUser") /\ req'[r].status = 201)
       => LET u == req'[r].uid IN
          /\ u \in UserIds
          /\ ~users[u].exists
          /\ users' = [users EXCEPT ![u] =
                         [NoUser EXCEPT !.exists = TRUE,
                                        !.username = req'[r].username,
                                        !.email = req'[r].email,
                                        !.password = Hash(req'[r].password),
                                        !.emailVerificationToken = req'[r].token,
                                        !.emailVerificationExpires = now + 24]]
          /\ ~users'[u].isEmailVerified
          /\ ~Pending(users'[u])
          /\ req'[r].token # NoToken
          /\ req'[r].message \in {MsgRegistered, MsgRegisteredNoMail}]_vars

\* the verification email could not be sent and the user exists all the same
C16_Witness ==
  \E r \in Reqs :
    /\ req[r].pc = "done" /\ req[r].op = "registerUser" /\ req[r].status = 201
    /\ req[r].message = MsgRegisteredNoMail
    /\ users[req[r].uid].exists
    /\ ~users[req[r].uid].isEmailVerified
    /\ users[req[r].uid].emailVerificationToken = req[r].token

\* C17: a verifyEmail that succeeds answers 'Profile changes applied
\* successfully' when it committed a pending batch and 'Email verified
\* successfully' when it did not.
C17_VerifyAnswerTellsWhatHappened ==
  [][\A r \in Reqs :
       (Answers(r, "verifyEmail") /\ req'[r].status = 200)
       => req'[r].message = IF Pending(users[req'[r].uid])
                            THEN MsgChangesApplied
                            ELSE MsgVerified]_vars

\* C18: resetPassword answers 400 and changes no record when the password
\* is missing, when it is shorter than 6 characters, and when no user holds
\* the token as an unexpired reset token, in this order; otherwise it sets
\* the password of a user holding the token and clears that user's reset
\* token and expiry in the same step, after which no user holds the token.
C18_ResetValidatesThenConsumesToken ==
  [][\A r \in Reqs :
       Answers(r, "resetPassword")
       => LET password == req'[r].password
              token == req'[r].token
              holders == {u \in UserIds : /\ users[u].exists
                                          /\ users[u].passwordResetToken = token
                                          /\ users[u].passwordResetExpires > now}
          IN IF password = NoPassword
             THEN /\ req'[r].status = 400 /\ req'[r].message = MsgPasswordRequired
                  /\ users' = users
             ELSE IF Len(password) < 6
             THEN /\ req'[r].status = 400 /\ req'[r].message = MsgPasswordShort
                  /\ users' = users
             ELSE IF holders = {}
             THEN /\ req'[r].status = 400 /\ req'[r].message = MsgInvalidReset
                  /\ users' = users
             ELSE /\ req'[r].status = 200
                  /\ req'[r].uid \in holders
                  /\ users' = [users EXCEPT ![req'[r].uid].password = Hash(password),
                                            ![req'[r].uid].passwordResetToken = NoToken,
                                            ![req'[r].uid].passwordResetExpires = NoTime]
                  /\ \A v \in UserIds : users'[v].passwordResetToken # token]_vars

\* a token generated by forgotPassword that no user holds any more is
\* presented after a password was reset, and is refused
C18_Witness ==
  \E r \in Reqs, u \in UserIds :
    /\ req[r].pc = "done" /\ req[r].op = "resetPassword" /\ req[r].status = 400
    /\ req[r].message = MsgInvalidReset
    /\ issuedBy[req[r].token] = "forgotPassword"
    /\ users[u].exists
    /\ users[u].password = Hash(Hunter2)
    /\ users[u].passwordResetToken = NoToken

\* C19: a step of forgotPassword or resetPassword leaves every user's
\* pending batch, email-verification token and expiry, isEmailVerified,
\* username and email as they were; a step of resetPassword changes at most
\* the password and the two reset-token fields of one user.
C19_ResetFlowLeavesVerificationAlone ==
  [][\A r \in Reqs :
       (\/ req[r].op \in {"forgotPassword", "resetPassword"}
        \/ req'[r].op \in {"forgotPassword", "resetPassword"})
       => /\ \A u \in UserIds :
               /\ users'[u].pendingChanges = users[u].pendingChanges
               /\ users'[u].emailVerificationToken = users[u].emailVerificationToken
               /\ users'[u].emailVerificationExpires = users[u].emailVerificationExpires
               /\ users'[u].isEmailVerified = users[u].isEmailVerified
               /\ users'[u].username = users[u].username
               /\ users'[u].email = users[u].email
               /\ users'[u].exists = users[u].exists
          /\ Answers(r, "resetPassword")
             => \A u \in UserIds :
                  users'[u] = [users[u] EXCEPT
                                 !.password = users'[u].password,
                                 !.passwordResetToken = users'[u].passwordResetToken,
                                 !.passwordResetExpires = users'[u].passwordResetExpires]]_vars

\* a password was reset while a batch was waiting for confirmation
C19_Witness ==
  \E r \in Reqs :
    /\ req[r].pc = "done" /\ req[r].op = "resetPassword" /\ req[r].status = 200
    /\ Pending(users[req[r].uid])
    /\ users[req[r].uid].emailVerificationToken # NoToken

\* C20: no two users hold the same email and no two users hold the same
\* username.
C20_LiveIdentitiesAreUnique ==
  \A u, v \in UserIds :
    (u # v /\ users[u].exists /\ users[v].exists)
    => /\ users[u].email # users[v].email
       /\ users[u].username # users[v].username

\* a user confirms a staged email or username that another user took after
\* the staging, and the write is refused
C20_Witness ==
  \E r \in Reqs, u, v \in UserIds :
    /\ req[r].pc = "done" /\ req[r].op = "verifyEmail" /\ req[r].status = 500
    /\ u # v /\ users[u].exists /\ users[v].exists
    /\ Pending(users[u])
    /\ \/ users[u].pendingChanges.email = users[v].email
       \/ users[u].pendingChanges.username = users[v].username

\* C21: every rejection of updateUserProfile (user not found, pending
\* changes exist, email in use, username taken, current password missing,
\* current password incorrect, no changes requested) is answered before the
\* handler has written and leaves every user record as it was; the only
\* writes of the handler are the save that stages the batch and the rollback
\* after the email could not be sent.
C21_RejectionsPrecedeWrites ==
  [][\A r \in Reqs :
       /\ (/\ Answers(r, "updateUserProfile")
           /\ req'[r].message \in {MsgUserNotFound, MsgPendingExists, MsgEmailInUse,
                                   MsgUsernameTaken, MsgCurrentRequired,
                                   MsgCurrentIncorrect, MsgNoChanges})
          => /\ req[r].pc = "idle"
             /\ users' = users
       /\ (/\ \/ req[r].op = "updateUserProfile"
              \/ req'[r].op = "updateUserProfile"
           /\ users' # users)
          => \/ req[r].pc = "save" /\ req'[r].pc = "send"
             \/ /\ req[r].pc = "send"
                /\ req'[r].status = 500
                /\ req'[r].message = MsgCouldNotSend]_vars

\* a wrong current password is refused although the rest of the request
\* could have been staged
C21_Witness ==
  \E r \in Reqs :
    /\ req[r].pc = "done" /\ req[r].op = "updateUserProfile"
    /\ req[r].status = 401 /\ req[r].message = MsgCurrentIncorrect
    /\ users[req[r].uid].exists
    /\ ~Pending(users[req[r].uid])
    /\ users[req[r].uid].emailVerificationToken = NoToken

\* C22: a user is created with isEmailVerified false; isEmailVerified is true
\* after every verifyEmail that succeeds for the user; it changes in no other
\* step, and once true it stays true.
C22_VerifiedFlagOnlyRises ==
  [][\A u \in UserIds :
       /\ (~users[u].exists /\ users'[u].exists) => ~users'[u].isEmailVerified
       /\ users[u].isEmailVerified => users'[u].isEmailVerified
       /\ (\E r \in Reqs : /\ Answers(r, "verifyEmail")
                           /\ req'[r].status = 200 /\ req'[r].uid = u)
          => users'[u].isEmailVerified
       /\ (users[u].exists /\ users'[u].isEmailVerified # users[u].isEmailVerified)
          => \E r \in Reqs : /\ Answers(r, "verifyEmail")
                             /\ req'[r].status = 200 /\ req'[r].uid = u]_vars

\* a verified user has confirmed a change of email and is still verified
C22_Witness ==
  \E r \in Reqs, t \in Tokens :
    /\ req[r].pc = "done" /\ req[r].op = "verifyEmail" /\ req[r].status = 200
    /\ issuedBy[req[r].token] = "updateUserProfile"
    /\ t # req[r].token /\ t \in used /\ issuedBy[t] = "registerUser"
    /\ users[req[r].uid].isEmailVerified
    /\ \A v \in UserIds \ {req[r].uid} : ~users[v].exists
    /\ users[req[r].uid].email = "new@x.com"

\* C23: the password of a pending batch is empty or the hash of a requested
\* password, never the requested password itself; a verifyEmail that commits
\* a batch with a password leaves the staged hash as the live password, so
\* that the live password matches the new password and no other password.
C23_StagedHashIsCopied ==
  [][/\ \A u \in UserIds :
          users'[u].pendingChanges.password \in {NoPassword} \cup {Hash(p) : p \in Passwords}
     /\ \A r \in Reqs :
          (/\ Answers(r, "verifyEmail") /\ req'[r].status = 200
           /\ users[req'[r].uid].pendingChanges.password # NoPassword)
          => LET u == req'[r].uid IN
             /\ users'[u].password = users[u].pendingChanges.password
             /\ \E p \in Passwords :
                  /\ users'[u].password = Hash(p)
                  /\ \A q \in Passwords \ {p} : users'[u].password # Hash(q)]_vars

\* a login with the new password succeeds after the batch that changed the
\* password was confirmed, and no password was ever reset
C23_Witness ==
  \E r \in Reqs, t \in Tokens :
    /\ req[r].pc = "done" /\ req[r].op = "loginUser" /\ req[r].status = 200
    /\ req[r].password = Hunter2
    /\ t \in used /\ issuedBy[t] = "updateUserProfile"
    /\ \A s \in Tokens : issuedBy[s] # "forgotPassword"

\* C24: the save that stages a batch stages a username only if it differs
\* from the live username, an email only if it differs from the live email,
\* and at least one staged field differs from the live value: a request that
\* asks for the current password as the new password is not staged.
C24_OnlyRealChangesAreStaged ==
  [][\A r \in Reqs :
       (req[r].pc = "save" /\ req'[r].pc = "send")
       => LET u == req[r].uid
              batch == users'[u].pendingChanges
          IN /\ batch.username # users[u].username
             /\ batch.email # users[u].email
             /\ \/ batch.username # NoValue
                \/ batch.email # NoValue
                \/ batch.password \notin {NoPassword, users[u].password}]_vars

C26_TokensStayWithinTheirPurpose ==
  [][\A r \in Reqs :
       /\ (Answers(r, "verifyEmail") /\ req'[r].status = 200)
          => issuedBy[req'[r].token] \in {"registerUser", "updateUserProfile",
                                          "resendVerificationEmail"}
       /\ (Answers(r, "resetPassword") /\ req'[r].status = 200)
          => issuedBy[req'[r].token] = "forgotPassword"]_vars

\* a verification token that is still valid is given to resetPassword and
\* refused
C26_Witness ==
  \E r \in Reqs, u \in UserIds :
    /\ req[r].pc = "done" /\ req[r].op = "resetPassword" /\ req[r].status = 400
    /\ req[r].message = MsgInvalidReset
    /\ users[u].exists
    /\ users[u].emailVerificationToken = req[r].token
    /\ users[u].emailVerificationExpires > now

\* C27: with requests served concurrently, the save of an updateUserProfile
\* request leaves on the record exactly the batch, the token and the expiry
\* of that request, whatever batch another request stored before, and
\* changes no other field.
C27_LastWriterStagesItsOwnBatch ==
  [][\A r \in Reqs :
       (req[r].pc = "save" /\ req'[r].pc = "send")
       => LET u == req[r].uid IN
          users' = [users EXCEPT ![u].pendingChanges = req[r].pendingChanges,
                                 ![u].emailVerificationToken = req'[r].token,
                                 ![u].emailVerificationExpires = now + 24]]_vars

\* two requests passed the check and both saved; the record holds the batch
\* of the second, which stages a field the first left empty and leaves empty
\* a field the first staged
C27_Witness ==
  \E r, q \in Reqs :
    /\ r # q
    /\ req[r].pc = "send" /\ req[q].pc = "send"
    /\ req[r].uid = req[q].uid
    /\ req[r].pendingChanges.username # NoValue /\ req[r].pendingChanges.email = NoValue
    /\ req[q].pendingChanges.username = NoValue /\ req[q].pendingChanges.email # NoValue
    /\ users[req[q].uid].pendingChanges = req[q].pendingChanges
    /\ users[req[q].uid].emailVerificationToken = req[q].token

\* C28: with requests served concurrently, the rollback of a request whose
\* email could not be sent changes the record only if the record holds the
\* token of that request.
C28_RollbackClearsOnlyItsOwnBatch ==
  [][\A r \in Reqs :
       (/\ req[r].pc = "send"
        /\ Answers(r, "updateUserProfile")
        /\ req'[r].status = 500
        /\ users[req[r].uid].emailVerificationToken # req[r].token)
       => users' = users]_vars

\* C29: a user that holds a pending batch holds a verification token that
\* has not expired, which verifyEmail accepts, or is not verified, so that
\* resendVerificationEmail generates a new token.
C29_PendingBatchHasAWayOut ==
  \A u \in UserIds :
    (users[u].exists /\ Pending(users[u]))
    => \/ /\ users[u].emailVerificationToken # NoToken
          /\ users[u].emailVerificationExpires > now
       \/ ~users[u].isEmailVerified

\* a verified user whose batch has outlived its token keeps the batch in
\* every step
C29_ExpiredBatchOfVerifiedUserStays ==
  [][\A u \in UserIds :
       (/\ users[u].exists /\ users[u].isEmailVerified /\ Pending(users[u])
        /\ users[u].emailVerificationExpires <= now)
       => /\ users'[u].pendingChanges = users[u].pendingChanges
          /\ users'[u].isEmailVerified
          /\ users'[u].emailVerificationExpires <= now']_vars

\* C30: updateUserProfile answers 200 with the staged email as the address
\* the confirmation was sent to when the batch holds an email, and with the
\* current email otherwise, with the changeType of the batch, and with the
\* live username and email, which the request has not changed.
C30_ConfirmationGoesToStagedEmail ==
  [][\A r \in Reqs :
       (Answers(r, "updateUserProfile") /\ req'[r].status = 200)
       => LET u == req'[r].uid
              batch == users'[u].pendingChanges
          IN /\ Pending(users'[u])
             /\ req'[r].emailTarget = IF batch.email # NoValue
                                      THEN batch.email
                                      ELSE users'[u].email
             /\ req'[r].changeType = batch.changeType
             /\ req'[r].username = users'[u].username
             /\ req'[r].email = users'[u].email
             /\ users' = users]_vars

\* the batch changes the email and the username: the confirmation goes to
\* the new address and the answer shows the old one
C30_Witness ==
  \E r \in Reqs :
    /\ req[r].pc = "done" /\ req[r].op = "updateUserProfile" /\ req[r].status = 200
    /\ req[r].changeType = "multiple"
    /\ req[r].emailTarget = users[req[r].uid].pendingChanges.email
    /\ req[r].emailTarget # req[r].email
    /\ req[r].email = users[req[r].uid].email

C33_FailedForgotLeavesNoResetToken ==
  [][\A r \in Reqs :
       (Answers(r, "forgotPassword") /\ req'[r].status = 500)
       => LET u == req'[r].uid IN
          /\ users' = [users EXCEPT ![u] = [req[r].doc EXCEPT !.passwordResetToken = NoToken,
                                                              !.passwordResetExpires = NoTime]]
          /\ \A t \in Tokens : users'[u].passwordResetToken # t]_vars

\* the email failed for a user that holds a pending batch
C33_Witness ==
  \E r \in Reqs :
    /\ req[r].pc = "done" /\ req[r].op = "forgotPassword" /\ req[r].status = 500
    /\ users[req[r].uid].exists
    /\ users[req[r].uid].passwordResetToken = NoToken
    /\ issuedBy[req[r].token] = "forgotPassword"
    /\ Pending(users[req[r].uid])

\* C34: the save that stages a batch stores the token of the request
\* whatever token the user held; the rollback leaves the user without a
\* token and does not put the earlier token back; verifyEmail succeeds only
\* with the token the user holds.
C34_RollbackDoesNotRestoreToken ==
  [][\A r \in Reqs :
       /\ (req[r].pc = "save" /\ req'[r].pc = "send")
          => /\ users'[req[r].uid].emailVerificationToken = req'[r].token
             /\ users'[req[r].uid].emailVerificationToken # users[req[r].uid].emailVerificationToken
       /\ (Answers(r, "updateUserProfile") /\ req'[r].status = 500)
          => /\ users'[req'[r].uid].emailVerificationToken = NoToken
             /\ users'[req'[r].uid].emailVerificationExpires = NoTime
       /\ (Answers(r, "verifyEmail") /\ req'[r].status = 200)
          => users[req'[r].uid].emailVerificationToken = req'[r].token]_vars

\* the signup token of an unverified user is refused, within its 24 hours,
\* after a batch was staged and rolled back
C34_Witness ==
  \E r \in Reqs, u \in UserIds, t \in Tokens :
    /\ req[r].pc = "done" /\ req[r].op = "verifyEmail" /\ req[r].status = 400
    /\ issuedBy[req[r].token] = "registerUser"
    /\ now = 0
    /\ users[u].exists /\ ~users[u].isEmailVerified
    /\ \A v \in UserIds \ {u} : ~users[v].exists
    /\ users[u].emailVerificationToken = NoToken
    /\ issuedBy[t] = "updateUserProfile"
    /\ \A s \in Tokens : issuedBy[s] # "resendVerificationEmail"

\* C35: a resetPassword that succeeds leaves the pending batch, the
\* email-verification token and its expiry of the user as they were; a
\* verifyEmail that commits a batch with a password leaves the staged hash as
\* the live password, whatever the live password was.
C35_StagedPasswordWinsOverReset ==
  [][\A r \in Reqs :
       /\ (Answers(r, "resetPassword") /\ req'[r].status = 200)
          => LET u == req'[r].uid IN
             /\ users'[u].pendingChanges = users[u].pendingChanges
             /\ users'[u].emailVerificationToken = users[u].emailVerificationToken
             /\ users'[u].emailVerificationExpires = users[u].emailVerificationExpires
       /\ (/\ Answers(r, "verifyEmail") /\ req'[r].status = 200
           /\ users[req'[r].uid].pendingChanges.password # NoPassword)
          => users'[req'[r].uid].password = users[req'[r].uid].pendingChanges.password]_vars

\* a password was reset while a batch with another password waits for its
\* confirmation
C35_Witness ==
  \E r \in Reqs :
    /\ req[r].pc = "done" /\ req[r].op = "resetPassword" /\ req[r].status = 200
    /\ users[req[r].uid].pendingChanges.password # NoPassword
    /\ users[req[r].uid].pendingChanges.password # users[req[r].uid].password
    /\ users[req[r].uid].emailVerificationToken # NoToken
    /\ users[req[r].uid].emailVerificationExpires > now

\* what the page shows once it is not loading
PageSettled ==
  /\ page.success <=> page.error = NoValue
  /\ page.token = NoToken => page.calls = 0 /\ page.error = MsgInvalidLink
  /\ page.calls <= 1
  /\ page.success => ~page.user /\ page.authSuccess # NoValue
  /\ ~page.success => page.user = page.stored /\ page.authSuccess = NoValue

\* C36: the page, once opened, leaves its loading state; when it is not
\* loading it shows success or an error and not both; without a token it
\* has made no call and shows an error; the stored session is removed and
\* auth_success is set when the call succeeded, and they are as they were
\* when it did not; the call succeeds when the server answers 200.
C36_PageSettlesInSuccessOrError ==
  /\ []((page.pc # "closed" /\ ~page.loading) => PageSettled)
  /\ []((page.pc # "closed" /\ page.loading) => (page.user = page.stored /\ page.authSuccess = NoValue))
  /\ [][\A r \in Reqs :
          (page.loading /\ ~page'.loading /\ req[r].pc = "done" /\ req[r].op = "verifyEmail"
             /\ page'.error # MsgVerifyFailed)
          => (page'.success <=> req[r].status = 200)]_vars
  /\ (page.pc # "closed") ~> ~page.loading

\* the server has accepted the token and the page shows success with the
\* session removed
C36_Witness ==
  /\ page.pc = "shown" /\ ~page.loading /\ page.success
  /\ page.stored /\ ~page.user
  /\ page.authSuccess = MsgVerified
  /\ page.token \in used

====
